---- MODULE Spec2Model ----
(***************************************************************************)
(* Model of custom_components/peloton/__init__.py: compile_quant_data (the *)
(* compilation of two workout documents into the list of 24 stats) and the *)
(* coordinator set up by async_setup_entry with its async_update_data      *)
(* cycle.                                                                  *)
(*                                                                         *)
(* A Python value is a record [t |-> type tag, v |-> integer].  A float    *)
(* is a fixed-point number: v counts units of 1/FloatScale.  A string is   *)
(* a code (0 is the empty string).  A key that is missing from a mapping   *)
(* is the value Absent.                                                    *)
(***************************************************************************)
EXTENDS Integers, Sequences, FiniteSets, TLC

VARIABLES
    workout_stats_summary,  \* compile_quant_data's first argument
    workout_stats_detail,   \* compile_quant_data's second argument
    now,                    \* round(time.time())
    pc,                     \* position inside compile_quant_data
    summaries,              \* the summaries map
    metrics,                \* the metrics map (with the target_* keys)
    outcome,                \* "running", "returned" or "raised"
    stats,                  \* the returned list
    cpc,                    \* position of the coordinator
    update_interval,        \* coordinator.update_interval, in seconds
    stat_interval,          \* the step passed to GetWorkoutMetricsById
    result,                 \* what the last setup or update handed its caller
    fault,                  \* the collaborator failure of the current step
    fetched,                \* this coordinator has seen a non-empty workout list
    cycles,                 \* update cycles started
    setups,                 \* async_setup_entry calls started
    loaded                  \* async_setup_entry has returned True

vars == <<workout_stats_summary, workout_stats_detail, now, pc, summaries,
          metrics, outcome, stats, cpc, update_interval, stat_interval,
          result, fault, fetched, cycles, setups, loaded>>

compileVars == <<workout_stats_summary, workout_stats_detail, now, pc,
                 summaries, metrics, outcome, stats>>

coordVars == <<cpc, update_interval, stat_interval, result, fault, fetched,
               cycles, setups, loaded>>

----------------------------------------------------------------------------
(* Python values *)

FloatScale == 10000

Absent == [t |-> "absent", v |-> 0]
None == [t |-> "none", v |-> 0]
IntV(n) == [t |-> "int", v |-> n]
FloatV(n) == [t |-> "float", v |-> n]
BoolV(b) == [t |-> "bool", v |-> IF b THEN 1 ELSE 0]
Dict == [t |-> "dict", v |-> 0]

\* mapping.get(key): a missing key reads as None
Get(x) == IF x.t = "absent" THEN None ELSE x

\* mapping.get(key, default)
GetDefault(x, d) == IF x.t = "absent" THEN d ELSE x

\* isinstance(v, int): bool is a subclass of int
IsInstanceInt(x) == x.t \in {"int", "bool"}

\* isinstance(v, float)
IsInstanceFloat(x) == x.t = "float"

\* the values arithmetic accepts
IsNumber(x) == x.t \in {"int", "bool", "float"}

\* the number a value stands for, in units of 1/FloatScale
Num(x) == IF x.t = "float" THEN x.v ELSE x.v * FloatScale

\* truth value of an object
Truthy(x) == CASE x.t \in {"absent", "none"} -> FALSE
               [] x.t = "dict" -> FALSE
               [] OTHER -> x.v # 0

\* a / b to the nearest unit of 1/FloatScale, a >= 0, b > 0
RoundDiv(a, b) == (2 * a + b) \div (2 * b)

\* the texts of the string codes
StrText == <<"mph", "km", "UTC", "America/New_York", "Nowhere/Nowhere", "abc",
             "IN_PROGRESS", "COMPLETE">>

\* the string with this text
StrV(text) ==
    [t |-> "str",
     v |-> IF text = "" THEN 0
           ELSE CHOOSE c \in 1..Len(StrText) : StrText[c] = text]

\* str(x) of a string or of None
StrOf(x) == IF x.t = "str" /\ x.v \in 1..Len(StrText) THEN StrText[x.v]
            ELSE IF x.t = "str" THEN ""
            ELSE "None"

\* Python's None where the model keeps a text (a unit, a device class, an icon)
NoText == "<None>"

\* mapping[key] = value on a map kept as a function
Put(m, k, x) == [q \in DOMAIN m \cup {k} |-> IF q = k THEN x ELSE m[q]]

\* mapping.get(key) on a map kept as a function
MapGet(m, k) == IF k \in DOMAIN m THEN m[k] ELSE None

EmptyMap == [q \in {} |-> None]

----------------------------------------------------------------------------
(* The tuples of sensor.py, built positionally by compile_quant_data *)

PelotonSummary(total, unit, device_class) ==
    [total |-> total, unit |-> unit, device_class |-> device_class]

PelotonMetric(max_val, avg_val, last_val, unit, device_class) ==
    [max_val |-> max_val, avg_val |-> avg_val, last_val |-> last_val,
     unit |-> unit, device_class |-> device_class]

PelotonStat(name, value, unit, device_class, state_class, icon) ==
    [name |-> name, value |-> value, unit |-> unit,
     device_class |-> device_class, state_class |-> state_class, icon |-> icon]

Measurement == "measurement"

----------------------------------------------------------------------------
(* Preprocess Summaries *)

\* IntOrNone taking any number for an int
NumberOrNone(x) == IF IsNumber(x) THEN x ELSE None

\* calories and elevation: the value if it is an int
IntOrNone(x) == IF IsInstanceInt(x) THEN x ELSE None

\* distance: the value if it is a float
FloatOrNone(x) == IF IsInstanceFloat(x) THEN x ELSE None

\* one pass of the loop over workout_stats_detail["summaries"]
SummaryStep(acc, summary) ==
    LET slug == summary.slug IN
    IF slug = "calories"
      THEN Put(acc, slug, PelotonSummary(IntOrNone(Get(summary.value)), "kcal", NoText))
    ELSE IF slug = "distance"
      THEN Put(acc, slug, PelotonSummary(FloatOrNone(Get(summary.value)),
                                         StrOf(Get(summary.display_unit)), NoText))
    ELSE IF slug = "elevation"
      THEN Put(acc, slug, PelotonSummary(IntOrNone(Get(summary.value)),
                                         StrOf(Get(summary.display_unit)), NoText))
    ELSE acc

RECURSIVE SummariesLoop(_, _)
SummariesLoop(list, acc) ==
    IF list = <<>> THEN acc
    ELSE SummariesLoop(Tail(list), SummaryStep(acc, Head(list)))

PreprocessSummaries(detail) == SummariesLoop(detail.summaries, EmptyMap)

----------------------------------------------------------------------------
(* Preprocess Metrics *)

\* a metric followed by its alternatives, when it has any
FlattenOne(metric) == <<metric>> \o metric.alternatives

RECURSIVE Flatten(_)
Flatten(list) ==
    IF list = <<>> THEN <<>>
    ELSE FlattenOne(Head(list)) \o Flatten(Tail(list))

\* int_stats: slug -> (default unit, device class)
IntStats == [heart_rate |-> <<"", NoText>>,
             resistance |-> <<"%", NoText>>,
             cadence    |-> <<"rpm", NoText>>,
             output     |-> <<"W", "power">>]

FloatStats == {"speed", "incline"}

\* LastValue reading the first element of the series
FirstValue(metric) ==
    LET vs == IF metric.has_values THEN metric.values ELSE <<>>
        w  == IF vs = <<>> THEN <<None>> ELSE vs
    IN  Get(w[1])

\* (metric.get("values", []) or [None])[-1]
LastValue(metric) ==
    LET vs == IF metric.has_values THEN metric.values ELSE <<>>
        w  == IF vs = <<>> THEN <<None>> ELSE vs
    IN  Get(w[Len(w)])

IntMetric(metric) ==
    PelotonMetric(IntOrNone(Get(metric.max_value)),
                  IntOrNone(Get(metric.average_value)),
                  IntOrNone(LastValue(metric)),
                  IF metric.display_unit.t = "absent"
                    THEN IntStats[metric.slug][1]
                    ELSE StrOf(metric.display_unit),
                  IntStats[metric.slug][2])

FloatMetric(metric) ==
    PelotonMetric(FloatOrNone(Get(metric.max_value)),
                  FloatOrNone(Get(metric.average_value)),
                  FloatOrNone(LastValue(metric)),
                  StrOf(Get(metric.display_unit)),
                  NoText)

\* MetricStep keeping the first Metric of a slug
MetricStepKeepingFirst(acc, metric) ==
    IF metric.slug \in DOMAIN acc THEN acc
    ELSE IF metric.slug \in DOMAIN IntStats THEN Put(acc, metric.slug, IntMetric(metric))
    ELSE IF metric.slug \in FloatStats THEN Put(acc, metric.slug, FloatMetric(metric))
    ELSE acc

\* one pass of the loop over metrics_flattened
MetricStep(acc, metric) ==
    IF metric.slug \in DOMAIN IntStats THEN Put(acc, metric.slug, IntMetric(metric))
    ELSE IF metric.slug \in FloatStats THEN Put(acc, metric.slug, FloatMetric(metric))
    ELSE acc

RECURSIVE MetricsLoop(_, _)
MetricsLoop(list, acc) ==
    IF list = <<>> THEN acc
    ELSE MetricsLoop(Tail(list), MetricStep(acc, Head(list)))

PreprocessMetrics(detail) == MetricsLoop(Flatten(detail.metrics), EmptyMap)

----------------------------------------------------------------------------
(* Target windows.  A step that can raise yields [exc, metrics]: exc is    *)
(* the exception's class, or "" when none was raised.                      *)

Ok(m) == [exc |-> "", metrics |-> m]
Raise(e, m) == [exc |-> e, metrics |-> m]

\* round(time.time()) - workout_stats_summary.get("start_time", 0),
\* in units of 1/FloatScale; the operands must be numbers
StartOrZero(summary) == GetDefault(summary.start_time, IntV(0))

ElapsedRaises(summary) == ~IsNumber(StartOrZero(summary))

ActualElapsed(summary, t) == t * FloatScale - Num(StartOrZero(summary))

\* InWindow with the two ends left out
StrictlyInWindow(target, elapsed) ==
    /\ target.offset_end * FloatScale > elapsed
    /\ elapsed > target.offset_start * FloatScale

\* target['offsets']['end'] >= actual_elapsed >= target['offsets']['start']
InWindow(target, elapsed) ==
    /\ target.offset_end * FloatScale >= elapsed
    /\ elapsed >= target.offset_start * FloatScale

\* {'upper': metric['upper'], 'lower': metric['lower']}
TargetBounds(metric) == [upper |-> metric.upper, lower |-> metric.lower]

\* TargetEntryStep keeping the bounds a name already has
TargetEntryStepKeepingFirst(acc, metric) ==
    IF acc.exc # "" THEN acc
    ELSE IF metric.name \in {"speed", "incline"}
      THEN IF metric.upper.t = "absent" \/ metric.lower.t = "absent"
             THEN Raise("KeyError", acc.metrics)
             ELSE IF (IF metric.name = "speed" THEN "target_speed"
                                               ELSE "target_incline") \in DOMAIN acc.metrics
               THEN acc
               ELSE Ok(Put(acc.metrics,
                           IF metric.name = "speed" THEN "target_speed"
                                                    ELSE "target_incline",
                           TargetBounds(metric)))
    ELSE acc

\* one pass of the loop over target['metrics']
TargetEntryStep(acc, metric) ==
    IF acc.exc # "" THEN acc
    ELSE IF metric.name \in {"speed", "incline"}
      THEN IF metric.upper.t = "absent" \/ metric.lower.t = "absent"
             THEN Raise("KeyError", acc.metrics)
             ELSE Ok(Put(acc.metrics,
                         IF metric.name = "speed" THEN "target_speed"
                                                  ELSE "target_incline",
                         TargetBounds(metric)))
    ELSE acc

RECURSIVE TargetEntriesLoop(_, _)
TargetEntriesLoop(list, acc) ==
    IF list = <<>> THEN acc
    ELSE TargetEntriesLoop(Tail(list), TargetEntryStep(acc, Head(list)))

\* one pass of the loop over target_metrics
TargetStep(acc, target, elapsed) ==
    IF acc.exc # "" THEN acc
    ELSE IF ~target.has_offsets THEN Raise("KeyError", acc.metrics)
    ELSE IF InWindow(target, elapsed)
      THEN IF ~target.has_metrics THEN Raise("KeyError", acc.metrics)
           ELSE TargetEntriesLoop(target.metrics, acc)
    ELSE acc

RECURSIVE TargetsLoop(_, _, _)
TargetsLoop(list, acc, elapsed) ==
    IF list = <<>> THEN acc
    ELSE TargetsLoop(Tail(list), TargetStep(acc, Head(list), elapsed), elapsed)

\* lines 196-213: the elapsed time, then the loop
ResolveTargets(summary, detail, t, m) ==
    IF ElapsedRaises(summary) THEN Raise("TypeError", m)
    ELSE TargetsLoop(detail.target_metrics, Ok(m), ActualElapsed(summary, t))

----------------------------------------------------------------------------
(* Build and return list *)

\* tz.gettz(raw_tz) if raw_tz else tz.gettz("UTC"); gettz gives None for a
\* name it does not know, and fromtimestamp then uses the local zone
UserTimezone(summary) ==
    LET raw_tz == Get(summary.timezone) IN
    IF ~Truthy(raw_tz) THEN "UTC"
    ELSE IF raw_tz = StrV("UTC") THEN "UTC"
    ELSE IF raw_tz = StrV("America/New_York") THEN "America/New_York"
    ELSE "local"

\* datetime.fromtimestamp(x, zone) of a number
FromTimestamp(x, zone) == [t |-> "datetime/" \o zone, v |-> Num(x)]

\* the value of Start Time and of End Time; "raise" when fromtimestamp raises
TimeValue(x, zone) ==
    IF Get(x) = None THEN None
    ELSE IF IsNumber(x) THEN FromTimestamp(x, zone)
    ELSE [t |-> "raise", v |-> 0]

\* workout_stats_summary.get("ride", {}).get("duration")
RideDuration(summary) ==
    IF summary.ride.t = "absent" THEN None ELSE Get(summary.ride_duration)

\* the value of Duration; "raise" when the division raises
DurationValue(summary) ==
    LET duration_sec == RideDuration(summary) IN
    IF ~Truthy(duration_sec) THEN None
    ELSE IF IsNumber(duration_sec) THEN FloatV(RoundDiv(Num(duration_sec), 60))
    ELSE [t |-> "raise", v |-> 0]

\* round(total_work / 3600, 4) of a float total_work
PowerOutputValue(summary) ==
    IF summary.total_work.t # "absent" /\ IsInstanceFloat(summary.total_work)
      THEN FloatV(RoundDiv(summary.total_work.v, 3600))
      ELSE None

LeaderboardRank(summary) == GetDefault(summary.leaderboard_rank, IntV(0))

LeaderboardTotalUsers(summary) == GetDefault(summary.total_leaderboard_users, IntV(0))

\* metrics.get(key, {}).get(bound, None)
TargetValue(m, key, bound) ==
    IF key \in DOMAIN m THEN m[key][bound] ELSE None

\* getattr(metrics.get('speed', {}), "unit", None)
SpeedUnit(m) == IF "speed" \in DOMAIN m THEN m["speed"].unit ELSE NoText

make_stat(data, name, stat, icon) ==
    IF data = None
      THEN PelotonStat(name, None, NoText, NoText, Measurement, icon)
      ELSE PelotonStat(name,
                       IF stat \in DOMAIN data THEN data[stat] ELSE None,
                       data.unit, data.device_class, Measurement, icon)

CommonStats(summary, m) ==
    LET zone == UserTimezone(summary) IN
    << PelotonStat("Start Time", TimeValue(summary.start_time, zone),
                   NoText, "timestamp", Measurement, "mdi:timer-sand"),
       PelotonStat("End Time", TimeValue(summary.end_time, zone),
                   NoText, "timestamp", Measurement, "mdi:timer-sand-complete"),
       PelotonStat("Duration", DurationValue(summary),
                   "min", NoText, Measurement, "mdi:timer-outline"),
       PelotonStat("Leaderboard: Rank", LeaderboardRank(summary),
                   NoText, NoText, Measurement, "mdi:trophy-award"),
       PelotonStat("Leaderboard: Total Users", LeaderboardTotalUsers(summary),
                   NoText, NoText, Measurement, "mdi:account-group"),
       PelotonStat("Power Output", PowerOutputValue(summary),
                   "Wh", "energy", Measurement, NoText),
       PelotonStat("Target Incline Upper", TargetValue(m, "target_incline", "upper"),
                   "%", NoText, Measurement, "mdi:slope-uphill"),
       PelotonStat("Target Incline Lower", TargetValue(m, "target_incline", "lower"),
                   "%", NoText, Measurement, "mdi:slope-downhill"),
       PelotonStat("Target Speed Upper", TargetValue(m, "target_speed", "upper"),
                   SpeedUnit(m), NoText, Measurement, "mdi:speedometer"),
       PelotonStat("Target Speed Lower", TargetValue(m, "target_speed", "lower"),
                   SpeedUnit(m), NoText, Measurement, "mdi:speedometer-slow") >>

DerivedStats(s, m) ==
    << make_stat(MapGet(s, "distance"), "Distance", "total", "mdi:map-marker-distance"),
       make_stat(MapGet(s, "calories"), "Calories", "total", "mdi:fire"),
       make_stat(MapGet(m, "heart_rate"), "Heart Rate: Average", "avg_val", "mdi:heart-pulse"),
       make_stat(MapGet(m, "heart_rate"), "Heart Rate: Max", "max_val", "mdi:heart-pulse"),
       make_stat(MapGet(m, "resistance"), "Resistance: Average", "avg_val", "mdi:network-strength-2"),
       make_stat(MapGet(m, "resistance"), "Resistance: Max", "max_val", "mdi:network-strength-4"),
       make_stat(MapGet(m, "speed"), "Speed: Average", "avg_val", "mdi:speedometer-medium"),
       make_stat(MapGet(m, "speed"), "Speed: Max", "max_val", "mdi:speedometer"),
       make_stat(MapGet(m, "speed"), "Speed: Most Recent", "last_val", "mdi:speedometer"),
       make_stat(MapGet(m, "incline"), "Incline: Average", "avg_val", "mdi:slope-uphill"),
       make_stat(MapGet(m, "incline"), "Incline: Max", "max_val", "mdi:slope-uphill"),
       make_stat(MapGet(m, "incline"), "Incline: Most Recent", "last_val", "mdi:slope-uphill"),
       make_stat(MapGet(m, "cadence"), "Cadence: Average", "avg_val", "mdi:fan"),
       make_stat(MapGet(m, "cadence"), "Cadence: Max", "max_val", "mdi:fan-chevron-up") >>

\* the exception building common_stats raises, "" when it raises none
BuildExc(summary) ==
    LET zone == UserTimezone(summary) IN
    IF TimeValue(summary.start_time, zone).t = "raise" THEN "TypeError"
    ELSE IF TimeValue(summary.end_time, zone).t = "raise" THEN "TypeError"
    ELSE IF summary.ride.t \notin {"absent", "dict"} THEN "AttributeError"
    ELSE IF DurationValue(summary).t = "raise" THEN "TypeError"
    ELSE ""

\* BuildStats leaving out the stats that have no value
BuildStatsDroppingEmpty(summary, s, m) ==
    IF BuildExc(summary) # "" THEN [exc |-> BuildExc(summary), stats |-> <<>>]
    ELSE [exc |-> "",
          stats |-> SelectSeq(CommonStats(summary, m) \o DerivedStats(s, m),
                              LAMBDA x : x.value # None)]

\* lines 230-342: [exc, stats]
BuildStats(summary, s, m) ==
    IF BuildExc(summary) # "" THEN [exc |-> BuildExc(summary), stats |-> <<>>]
    ELSE [exc |-> "", stats |-> CommonStats(summary, m) \o DerivedStats(s, m)]

\* compile_quant_data as a whole: [exc, stats]
CompileQuantData(summary, detail, t) ==
    LET s == PreprocessSummaries(detail)
        m == PreprocessMetrics(detail)
        r == ResolveTargets(summary, detail, t, m)
    IN  IF r.exc # "" THEN [exc |-> r.exc, stats |-> <<>>]
        ELSE BuildStats(summary, s, r.metrics)

----------------------------------------------------------------------------
(* Steps of one call of compile_quant_data *)

Running == [kind |-> "running", exc |-> ""]
Returned == [kind |-> "returned", exc |-> ""]
Raised(e) == [kind |-> "raised", exc |-> e]

\* lines 135-156
DoSummaries ==
    /\ pc = "summaries"
    /\ summaries' = PreprocessSummaries(workout_stats_detail)
    /\ pc' = "metrics"
    /\ UNCHANGED <<workout_stats_summary, workout_stats_detail, now, metrics,
                   outcome, stats>>
    /\ UNCHANGED coordVars

\* lines 160-194
DoMetrics ==
    /\ pc = "metrics"
    /\ metrics' = PreprocessMetrics(workout_stats_detail)
    /\ pc' = "targets"
    /\ UNCHANGED <<workout_stats_summary, workout_stats_detail, now, summaries,
                   outcome, stats>>
    /\ UNCHANGED coordVars

\* lines 196-213
DoTargets ==
    /\ pc = "targets"
    /\ LET r == ResolveTargets(workout_stats_summary, workout_stats_detail,
                               now, metrics)
       IN  /\ metrics' = r.metrics
           /\ pc' = IF r.exc = "" THEN "build" ELSE "done"
           /\ outcome' = IF r.exc = "" THEN outcome ELSE Raised(r.exc)
    /\ UNCHANGED <<workout_stats_summary, workout_stats_detail, now, summaries,
                   stats>>
    /\ UNCHANGED coordVars

\* lines 216-342
DoBuild ==
    /\ pc = "build"
    /\ LET r == BuildStats(workout_stats_summary, summaries, metrics)
       IN  /\ stats' = r.stats
           /\ outcome' = IF r.exc = "" THEN Returned ELSE Raised(r.exc)
    /\ pc' = "done"
    /\ UNCHANGED <<workout_stats_summary, workout_stats_detail, now, summaries,
                   metrics>>
    /\ UNCHANGED coordVars

NextCompile == DoSummaries \/ DoMetrics \/ DoTargets \/ DoBuild

----------------------------------------------------------------------------
(* Input documents *)

\* the sequences over S of length at most n
SeqUpTo(S, n) == UNION {[1..k -> S] : k \in 0..n}

\* a workout summary with none of its optional fields
EmptySummary ==
    [start_time |-> Absent, end_time |-> Absent, ride |-> Absent,
     ride_duration |-> Absent, leaderboard_rank |-> Absent,
     total_leaderboard_users |-> Absent, total_work |-> Absent,
     timezone |-> Absent, status |-> Absent]

\* a workout detail with none of its collections
EmptyDetail == [summaries |-> <<>>, metrics |-> <<>>, target_metrics |-> <<>>]

SummaryEntry(slug, value, unit) ==
    [slug |-> slug, value |-> value, display_unit |-> unit]

MetricEntry(slug, max, avg, has_values, values, unit, alternatives) ==
    [slug |-> slug, max_value |-> max, average_value |-> avg,
     has_values |-> has_values, values |-> values, display_unit |-> unit,
     alternatives |-> alternatives]

TargetEntry(name, upper, lower) == [name |-> name, upper |-> upper, lower |-> lower]

Window(has_offsets, start, end, has_metrics, entries) ==
    [has_offsets |-> has_offsets, offset_start |-> start, offset_end |-> end,
     has_metrics |-> has_metrics, metrics |-> entries]

\* the state before compile_quant_data's first statement
CompileStart(summary, detail, t) ==
    /\ workout_stats_summary = summary
    /\ workout_stats_detail = detail
    /\ now = t
    /\ pc = "summaries"
    /\ summaries = EmptyMap
    /\ metrics = EmptyMap
    /\ outcome = Running
    /\ stats = <<>>

NoResult == [kind |-> "none", msg |-> ""]
NoFault == [step |-> "", exc |-> ""]

\* no config entry is set up
CoordIdle ==
    /\ cpc = "not_setup"
    /\ update_interval = 0
    /\ stat_interval = 0
    /\ result = NoResult
    /\ fault = NoFault
    /\ fetched = FALSE
    /\ cycles = 0
    /\ setups = 0
    /\ loaded = FALSE

----------------------------------------------------------------------------
(* Documents with every optional field of the summary present, absent or   *)
(* of another type, over a few details, malformed target windows included  *)

NowWhole == 2

RideShapes ==
    { <<Absent, Absent>>, <<Dict, Absent>>, <<Dict, IntV(0)>>, <<Dict, IntV(90)>>,
      <<Dict, StrV("abc")>>, <<None, Absent>> }

SummariesWhole ==
    { [start_time |-> st, end_time |-> et, ride |-> rd[1], ride_duration |-> rd[2],
       leaderboard_rank |-> lr, total_leaderboard_users |-> lu,
       total_work |-> tw, timezone |-> z, status |-> Absent] :
        st \in {Absent, IntV(1), FloatV(15000), None, StrV("abc")},
        et \in {Absent, None, IntV(3), StrV("abc")},
        rd \in RideShapes,
        lr \in {Absent, IntV(5)},
        lu \in {Absent, IntV(9)},
        tw \in {Absent, FloatV(36000000), IntV(3600)},
        z \in {Absent, StrV("America/New_York"), StrV("Nowhere/Nowhere")} }

HeartRateEntry ==
    MetricEntry("heart_rate", IntV(150), IntV(120), TRUE, <<IntV(110), IntV(130)>>,
                Absent, <<>>)

SpeedEntry ==
    MetricEntry("speed", FloatV(15000), FloatV(10000), TRUE,
                <<FloatV(5000), FloatV(12000)>>, StrV("mph"), <<>>)

PaceEntry ==
    MetricEntry("pace", FloatV(80000), FloatV(90000), TRUE, <<FloatV(85000)>>,
                Absent, <<SpeedEntry>>)

FullDetail ==
    [summaries |-> << SummaryEntry("calories", IntV(250), Absent),
                      SummaryEntry("distance", FloatV(55000), StrV("km")) >>,
     metrics |-> << HeartRateEntry, PaceEntry >>,
     target_metrics |-> << Window(TRUE, 0, 2, TRUE,
                                  << TargetEntry("incline", IntV(5), IntV(2)),
                                     TargetEntry("speed", FloatV(70000), FloatV(30000)) >>) >>]

MistypedDetail ==
    [summaries |-> << SummaryEntry("calories", FloatV(2500000), Absent),
                      SummaryEntry("distance", IntV(5), StrV("km")) >>,
     metrics |-> << MetricEntry("heart_rate", FloatV(1500000), StrV("abc"), TRUE,
                                <<None>>, Absent, <<>>),
                    MetricEntry("speed", IntV(1), BoolV(TRUE), FALSE, <<>>,
                                Absent, <<>>) >>,
     target_metrics |-> << Window(TRUE, 5, 9, TRUE,
                                  << TargetEntry("incline", IntV(5), IntV(2)) >>) >>]

TargetsOnly(windows) == [EmptyDetail EXCEPT !.target_metrics = windows]

DetailsWhole ==
    { EmptyDetail, FullDetail, MistypedDetail,
      \* a window with no 'offsets'
      TargetsOnly(<< Window(FALSE, 0, 0, TRUE, <<>>) >>),
      \* a window with no 'metrics', around the elapsed time and away from it
      TargetsOnly(<< Window(TRUE, 0, 2, FALSE, <<>>) >>),
      TargetsOnly(<< Window(TRUE, 5, 9, FALSE, <<>>) >>),
      \* a bound with no 'upper', with no 'lower'
      TargetsOnly(<< Window(TRUE, 0, 2, TRUE,
                            << TargetEntry("speed", Absent, FloatV(30000)) >>) >>),
      TargetsOnly(<< Window(TRUE, 0, 2, TRUE,
                            << TargetEntry("incline", IntV(5), Absent) >>) >>),
      \* a name that is not a target, with no bounds
      TargetsOnly(<< Window(TRUE, 0, 2, TRUE,
                            << TargetEntry("cadence", Absent, Absent) >>) >>) }

Init ==
    /\ \E s \in SummariesWhole, d \in DetailsWhole : CompileStart(s, d, NowWhole)
    /\ CoordIdle

Spec == Init /\ [][NextCompile]_vars

----------------------------------------------------------------------------
(* Claims about the whole list *)

StatNames ==
    << "Start Time", "End Time", "Duration", "Leaderboard: Rank",
       "Leaderboard: Total Users", "Power Output", "Target Incline Upper",
       "Target Incline Lower", "Target Speed Upper", "Target Speed Lower",
       "Distance", "Calories", "Heart Rate: Average", "Heart Rate: Max",
       "Resistance: Average", "Resistance: Max", "Speed: Average", "Speed: Max",
       "Speed: Most Recent", "Incline: Average", "Incline: Max",
       "Incline: Most Recent", "Cadence: Average", "Cadence: Max" >>

NamesOf(list) == [i \in 1..Len(list) |-> list[i].name]

\* every field the documents hold has the shape the data model gives it:
\* the times and the duration are numbers, 'ride' is a mapping, a window has
\* its 'offsets' and 'metrics', a target bound its 'upper' and 'lower'
FieldsAsDocumented ==
    /\ workout_stats_summary.start_time.t \in {"absent", "int", "float"}
    /\ workout_stats_summary.end_time.t \in {"absent", "int", "float"}
    /\ workout_stats_summary.ride.t \in {"absent", "dict"}
    /\ workout_stats_summary.ride_duration.t \in {"absent", "int", "float"}
    /\ \A i \in 1..Len(workout_stats_detail.target_metrics) :
         LET w == workout_stats_detail.target_metrics[i] IN
         /\ w.has_offsets
         /\ w.has_metrics
         /\ \A j \in 1..Len(w.metrics) :
              w.metrics[j].upper.t # "absent" /\ w.metrics[j].lower.t # "absent"

\* C1: with fields present or absent in any combination, compile_quant_data
\* returns, and whatever it returns is the 24 stats named StatNames, in
\* that order
C1_FixedList ==
    pc = "done" =>
       /\ FieldsAsDocumented => outcome.kind = "returned"
       /\ outcome.kind = "returned" => Len(stats) = 24 /\ NamesOf(stats) = StatNames

\* C1: the call has returned for two documents that hold no field at all
C1_Witness ==
    /\ pc = "done"
    /\ outcome.kind = "returned"
    /\ workout_stats_summary = EmptySummary
    /\ workout_stats_detail = EmptyDetail
    /\ Len(stats) = 24

\* C2: whatever is absent or of another type in the two documents,
\* compile_quant_data does not raise and returns 24 stats
C2_NeverRaises ==
    pc = "done" => outcome.kind = "returned" /\ Len(stats) = 24

ValueOf(name) ==
    LET i == CHOOSE k \in 1..Len(StatNames) : StatNames[k] = name IN stats[i].value

NoSlug(list, slug) == \A i \in 1..Len(list) : list[i].slug # slug

\* C3: a stat whose source field is absent has the value None; so have
\* Leaderboard: Rank and Leaderboard: Total Users
C3_AbsentIsNone ==
    (pc = "done" /\ outcome.kind = "returned") =>
       /\ workout_stats_summary.start_time = Absent => ValueOf("Start Time") = None
       /\ workout_stats_summary.end_time = Absent => ValueOf("End Time") = None
       /\ workout_stats_summary.ride = Absent => ValueOf("Duration") = None
       /\ workout_stats_summary.ride_duration = Absent => ValueOf("Duration") = None
       /\ workout_stats_summary.total_work = Absent => ValueOf("Power Output") = None
       /\ workout_stats_detail.target_metrics = <<>> =>
            /\ ValueOf("Target Incline Upper") = None
            /\ ValueOf("Target Incline Lower") = None
            /\ ValueOf("Target Speed Upper") = None
            /\ ValueOf("Target Speed Lower") = None
       /\ NoSlug(workout_stats_detail.summaries, "distance") => ValueOf("Distance") = None
       /\ NoSlug(workout_stats_detail.summaries, "calories") => ValueOf("Calories") = None
       /\ workout_stats_detail.metrics = <<>> =>
            \A i \in 13..24 : stats[i].value = None
       /\ workout_stats_summary.leaderboard_rank = Absent =>
            ValueOf("Leaderboard: Rank") = None
       /\ workout_stats_summary.total_leaderboard_users = Absent =>
            ValueOf("Leaderboard: Total Users") = None

\* the same for every stat but the two leaderboard stats
C3_AbsentIsNoneButLeaderboard ==
    (pc = "done" /\ outcome.kind = "returned") =>
       /\ workout_stats_summary.start_time = Absent => ValueOf("Start Time") = None
       /\ workout_stats_summary.end_time = Absent => ValueOf("End Time") = None
       /\ workout_stats_summary.ride = Absent => ValueOf("Duration") = None
       /\ workout_stats_summary.ride_duration = Absent => ValueOf("Duration") = None
       /\ workout_stats_summary.total_work = Absent => ValueOf("Power Output") = None
       /\ workout_stats_detail.target_metrics = <<>> =>
            /\ ValueOf("Target Incline Upper") = None
            /\ ValueOf("Target Incline Lower") = None
            /\ ValueOf("Target Speed Upper") = None
            /\ ValueOf("Target Speed Lower") = None
       /\ NoSlug(workout_stats_detail.summaries, "distance") => ValueOf("Distance") = None
       /\ NoSlug(workout_stats_detail.summaries, "calories") => ValueOf("Calories") = None
       /\ workout_stats_detail.metrics = <<>> =>
            \A i \in 13..24 : stats[i].value = None

----------------------------------------------------------------------------
(* Summaries lists of every shape up to MaxSummaries entries *)

MaxSummaries == 2

\* one raw value of each runtime type, and the missing key
TypedValues == {Absent, None, IntV(7), FloatV(75000), BoolV(TRUE), StrV("abc")}

SummarySlugs == {"calories", "distance", "elevation", "total_output"}

SummaryEntries ==
    { SummaryEntry(slug, value, unit) :
        slug \in SummarySlugs, value \in TypedValues, unit \in {Absent, StrV("km")} }

InitSummaries ==
    /\ \E list \in SeqUpTo(SummaryEntries, MaxSummaries) :
          CompileStart(EmptySummary, [EmptyDetail EXCEPT !.summaries = list], 0)
    /\ CoordIdle

SpecSummaries == InitSummaries /\ [][NextCompile]_vars

\* the claims' "integer" and "float" are Python's: isinstance(v, int) holds
\* of an int and of a bool, isinstance(v, float) of a float alone
IsPyInt(x) == x.t = "int" \/ x.t = "bool"
IsPyFloat(x) == x.t = "float"

\* the indexes of the entries of list with this slug
WithSlug(list, slug) == {i \in 1..Len(list) : list[i].slug = slug}

Max(S) == CHOOSE i \in S : \A j \in S : j <= i

\* what one summaries entry is to yield
ExpectedTotal(entry) ==
    IF entry.slug = "distance"
      THEN IF IsPyFloat(entry.value) THEN entry.value ELSE None
      ELSE IF IsPyInt(entry.value) THEN entry.value ELSE None

\* C4: after the summaries step the map holds, for calories, elevation and
\* distance, a Summary whose value is the entry's raw value when it is an
\* integer (calories, elevation) or a float (distance) and None otherwise;
\* other slugs add nothing; so the Calories and Distance stats are those
\* values
C4_SummaryTypes ==
    LET list == workout_stats_detail.summaries IN
    /\ pc # "summaries" =>
         /\ DOMAIN summaries \subseteq {"calories", "distance", "elevation"}
         /\ \A slug \in {"calories", "distance", "elevation"} :
              IF WithSlug(list, slug) = {}
                THEN slug \notin DOMAIN summaries
                ELSE /\ slug \in DOMAIN summaries
                     /\ summaries[slug].total =
                          ExpectedTotal(list[Max(WithSlug(list, slug))])
    /\ (pc = "done" /\ outcome.kind = "returned") =>
         /\ ValueOf("Calories") # None =>
              \E i \in WithSlug(list, "calories") :
                 IsPyInt(list[i].value) /\ ValueOf("Calories") = list[i].value
         /\ ValueOf("Distance") # None =>
              \E i \in WithSlug(list, "distance") :
                 IsPyFloat(list[i].value) /\ ValueOf("Distance") = list[i].value
         /\ \A i \in WithSlug(list, "calories") :
              i = Max(WithSlug(list, "calories")) /\ list[i].value.t = "int"
                 => ValueOf("Calories") = list[i].value
         /\ \A i \in WithSlug(list, "distance") :
              i = Max(WithSlug(list, "distance")) /\ list[i].value.t = "float"
                 => ValueOf("Distance") = list[i].value

\* C4: a float calories value was turned into None while a float distance
\* value went through to the Distance stat, next to an unknown slug
C4_Witness ==
    LET list == workout_stats_detail.summaries IN
    /\ pc = "done"
    /\ Len(list) = 2
    /\ list[1] = SummaryEntry("calories", FloatV(75000), Absent)
    /\ list[2] = SummaryEntry("distance", FloatV(75000), StrV("km"))
    /\ summaries["calories"].total = None
    /\ ValueOf("Calories") = None
    /\ ValueOf("Distance") = FloatV(75000)

----------------------------------------------------------------------------
(* Metrics lists: one entry of every shape, and lists of up to MaxMetrics   *)
(* entries with up to MaxAlternatives alternatives each                    *)

MaxMetrics == 2
MaxAlternatives == 1
MaxValues == 2

MetricSlugs == DOMAIN IntStats \cup FloatStats \cup {"pace"}

SeriesValues == {IntV(3), FloatV(35000), None}

\* a 'values' key that is missing, or a series of up to MaxValues elements
SeriesShapes ==
    {<<FALSE, <<>>>>} \cup {<<TRUE, vs>> : vs \in SeqUpTo(SeriesValues, MaxValues)}

SingleMetrics ==
    { << MetricEntry(slug, max, avg, series[1], series[2], unit, <<>>) >> :
        slug \in MetricSlugs, max \in TypedValues, avg \in TypedValues,
        series \in SeriesShapes, unit \in {Absent, StrV("mph")} }

\* entry number n of a list: its values are numbered after n so that the
\* entry a Metric was built from can be told, ints or floats throughout
NumberedEntry(slug, n, floats, alternatives) ==
    LET V(k) == IF floats THEN FloatV(10 * n + k) ELSE IntV(10 * n + k) IN
    MetricEntry(slug, V(1), V(2), TRUE, <<V(3)>>, Absent, alternatives)

ListSlugs == {"heart_rate", "speed", "pace"}

\* a top-level entry: its slug and its alternatives' slugs
TopShapes ==
    { [slug |-> slug, alts |-> alts] :
        slug \in ListSlugs, alts \in SeqUpTo(ListSlugs, MaxAlternatives) }

\* the entries of a list hold ints and floats in turn, the first floats
\* when floats_first; alternatives hold what their parent holds
MetricsOf(shapes, floats_first) ==
    [i \in 1..Len(shapes) |->
        LET floats == ((i % 2 = 1) = floats_first) IN
        NumberedEntry(shapes[i].slug, 10 * i, floats,
            [j \in 1..Len(shapes[i].alts) |->
                NumberedEntry(shapes[i].alts[j], 10 * i + j, floats, <<>>)])]

\* the lists of at most n top-level entries
MetricLists(n) ==
    { MetricsOf(shapes, floats_first) :
        shapes \in SeqUpTo(TopShapes, n), floats_first \in BOOLEAN }

\* an alternative that has an alternative of its own
NestedMetrics ==
    { << NumberedEntry("pace", 1, TRUE,
            << NumberedEntry("speed", 2, TRUE,
                  << NumberedEntry(slug, 3, FALSE, <<>>) >>) >>) >> :
        slug \in ListSlugs }

InitMetrics ==
    /\ \E list \in SingleMetrics \cup MetricLists(MaxMetrics) \cup NestedMetrics :
          CompileStart(EmptySummary, [EmptyDetail EXCEPT !.metrics = list], 0)
    /\ CoordIdle

SpecMetrics == InitMetrics /\ [][NextCompile]_vars

RecognizedSlugs == {"heart_rate", "resistance", "cadence", "output", "speed", "incline"}

\* the places of the flattened list: <<i, 0>> is top-level entry i and
\* <<i, j>> its j-th alternative
Places(list) ==
    UNION { {<<i, j>> : j \in 0..Len(list[i].alternatives)} : i \in 1..Len(list) }

EntryAt(list, p) ==
    IF p[2] = 0 THEN list[p[1]] ELSE list[p[1]].alternatives[p[2]]

\* p comes before q in the flattened list
Before(p, q) == p[1] < q[1] \/ (p[1] = q[1] /\ p[2] < q[2])

PlacesOf(list, slug) == {p \in Places(list) : EntryAt(list, p).slug = slug}

LastPlace(S) == CHOOSE p \in S : \A q \in S : q = p \/ Before(q, p)

ValueOfType(slug, x) ==
    IF slug \in {"speed", "incline"}
      THEN IF IsPyFloat(x) THEN x ELSE None
      ELSE IF IsPyInt(x) THEN x ELSE None

\* the final element of the series when it has the slug's type
LastOfType(slug, e) ==
    IF ~e.has_values \/ Len(e.values) = 0 THEN None
    ELSE ValueOfType(slug, e.values[Len(e.values)])

\* C6: after the metrics step, every recognized slug of the flattened list
\* (each entry, then its alternatives) is in the map, no other slug is, and
\* the map holds the Metric of the slug's last occurrence and nothing of an
\* earlier one
C6_LastOccurrenceWins ==
    LET list == workout_stats_detail.metrics IN
    pc \notin {"summaries", "metrics"} =>
       /\ DOMAIN metrics \subseteq RecognizedSlugs
       /\ \A slug \in RecognizedSlugs :
            IF PlacesOf(list, slug) = {}
              THEN slug \notin DOMAIN metrics
              ELSE /\ slug \in DOMAIN metrics
                   /\ LET e == EntryAt(list, LastPlace(PlacesOf(list, slug))) IN
                      /\ metrics[slug].max_val = ValueOfType(slug, e.max_value)
                      /\ metrics[slug].avg_val = ValueOfType(slug, e.average_value)
                      /\ metrics[slug].last_val = LastOfType(slug, e)

\* C6: an int heart_rate entry with a speed alternative, then a float
\* heart_rate entry: both slugs are in the map and heart_rate holds the
\* later entry's Nones
C6_Witness ==
    LET list == workout_stats_detail.metrics IN
    /\ pc = "done"
    /\ Len(list) = 2
    /\ list[1].slug = "heart_rate" /\ ~list[1].max_value.t = "float"
    /\ Len(list[1].alternatives) = 1 /\ list[1].alternatives[1].slug = "speed"
    /\ list[2].slug = "heart_rate" /\ list[2].max_value.t = "float"
    /\ DOMAIN metrics = {"heart_rate", "speed"}
    /\ metrics["heart_rate"].max_val = None

\* C7: the Metric of a recognized slug has, each on its own, the max, the
\* average and the last value of the entry it was built from when that
\* value has the slug's type, and None otherwise; last is the final
\* element of 'values', None when the series is missing or empty
C7_FieldsIndependent ==
    LET list == workout_stats_detail.metrics IN
    pc \notin {"summaries", "metrics"} =>
       \A slug \in RecognizedSlugs \cap DOMAIN metrics :
          \E p \in PlacesOf(list, slug) :
             LET e == EntryAt(list, p) IN
             /\ metrics[slug].max_val = ValueOfType(slug, e.max_value)
             /\ metrics[slug].avg_val = ValueOfType(slug, e.average_value)
             /\ metrics[slug].last_val = LastOfType(slug, e)
             /\ (~e.has_values \/ e.values = <<>>) => metrics[slug].last_val = None

\* C7: a speed entry whose max is an int and whose average and last are
\* floats, the last after an int in the series
C7_Witness ==
    LET list == workout_stats_detail.metrics IN
    /\ pc = "done"
    /\ Len(list) = 1
    /\ list[1].slug = "speed"
    /\ list[1].max_value = IntV(7)
    /\ list[1].average_value = FloatV(75000)
    /\ list[1].values = <<IntV(3), FloatV(35000)>>
    /\ metrics["speed"].max_val = None
    /\ metrics["speed"].avg_val = FloatV(75000)
    /\ metrics["speed"].last_val = FloatV(35000)
    /\ ValueOf("Speed: Most Recent") = FloatV(35000)

----------------------------------------------------------------------------
(* Target windows: up to MaxWindows windows of up to MaxTargetEntries       *)
(* bounds each, around elapsed times on, inside and off their ends         *)

MaxWindows == 2
MaxTargetEntries == 2

OffsetPairs == {<<2, 3>>, <<3, 3>>}

TargetNames == {"speed", "incline"}

\* the start_time and the time of the call
ClockShapes ==
    {<<st, t>> : st \in {Absent, IntV(1), FloatV(5000)}, t \in 2..5}

WindowShapes ==
    { [offsets |-> o, names |-> names] :
        o \in OffsetPairs, names \in SeqUpTo(TargetNames, MaxTargetEntries) }

\* bound j of window i holds numbers of its own
NumberedBounds(name, i, j) ==
    TargetEntry(name, IntV(100 * i + 10 * j + 2), IntV(100 * i + 10 * j + 1))

WindowsOf(shapes) ==
    [i \in 1..Len(shapes) |->
        Window(TRUE, shapes[i].offsets[1], shapes[i].offsets[2], TRUE,
               [j \in 1..Len(shapes[i].names) |->
                   NumberedBounds(shapes[i].names[j], i, j)])]

\* windows with a name that is no target between the targets
OtherNameWindows ==
    { << Window(TRUE, 2, 4, TRUE,
                << NumberedBounds(a, 1, 1), NumberedBounds("cadence", 1, 2),
                   NumberedBounds(b, 1, 3) >>) >> :
        a \in TargetNames \cup {"cadence"}, b \in TargetNames \cup {"cadence"} }

\* the lists of at most n windows
WindowLists(n) ==
    {WindowsOf(shapes) : shapes \in SeqUpTo(WindowShapes, n)}
    \cup OtherNameWindows

InitTargets ==
    /\ \E list \in WindowLists(MaxWindows), c \in ClockShapes :
          CompileStart([EmptySummary EXCEPT !.start_time = c[1]],
                       [EmptyDetail EXCEPT !.target_metrics = list], c[2])
    /\ CoordIdle

SpecTargets == InitTargets /\ [][NextCompile]_vars

\* now - start_time in units of 1/FloatScale, a missing start_time being 0
Elapsed ==
    LET st == workout_stats_summary.start_time IN
    now * FloatScale -
       (IF st.t = "absent" THEN 0
        ELSE IF st.t = "float" THEN st.v ELSE st.v * FloatScale)

\* start <= elapsed <= end
Contains(w) ==
    /\ w.offset_start * FloatScale <= Elapsed
    /\ Elapsed <= w.offset_end * FloatScale

\* the places <<i, j>> of the bounds called name in the windows that
\* contain the elapsed time
Matching(name) ==
    LET list == workout_stats_detail.target_metrics IN
    UNION { {<<i, j>> : j \in {k \in 1..Len(list[i].metrics) :
                                   list[i].metrics[k].name = name}} :
            i \in {k \in 1..Len(list) : Contains(list[k])} }

BoundAt(p) == workout_stats_detail.target_metrics[p[1]].metrics[p[2]]

UpperStat(name) ==
    ValueOf(IF name = "speed" THEN "Target Speed Upper" ELSE "Target Incline Upper")

LowerStat(name) ==
    ValueOf(IF name = "speed" THEN "Target Speed Lower" ELSE "Target Incline Lower")

\* C5: a window supplies bounds exactly when start <= elapsed <= end: with
\* no such window the four target stats are None, and a name has bounds
\* exactly when such a window lists it, the bounds of one of its entries
C5_InclusiveWindow ==
    (pc = "done" /\ outcome.kind = "returned") =>
       /\ (\A i \in 1..Len(workout_stats_detail.target_metrics) :
              ~Contains(workout_stats_detail.target_metrics[i]))
            => \A name \in {"speed", "incline"} :
                  UpperStat(name) = None /\ LowerStat(name) = None
       /\ \A name \in {"speed", "incline"} :
            IF Matching(name) = {}
              THEN UpperStat(name) = None /\ LowerStat(name) = None
              ELSE \E p \in Matching(name) :
                      /\ UpperStat(name) = BoundAt(p).upper
                      /\ LowerStat(name) = BoundAt(p).lower

\* C5: the elapsed time is both the start and the end of the only window,
\* which supplies the incline bounds and no speed bounds
C5_Witness ==
    LET list == workout_stats_detail.target_metrics IN
    /\ pc = "done"
    /\ Len(list) = 1
    /\ list[1].offset_start = 3 /\ list[1].offset_end = 3
    /\ Elapsed = 3 * FloatScale
    /\ workout_stats_summary.start_time = IntV(1)
    /\ Len(list[1].metrics) = 1 /\ list[1].metrics[1].name = "incline"
    /\ ValueOf("Target Incline Upper") = IntV(112)
    /\ ValueOf("Target Incline Lower") = IntV(111)
    /\ ValueOf("Target Speed Upper") = None

\* C9: the bounds reported for a name are the upper and lower of the last
\* entry with that name among the windows that contain the elapsed time
C9_LastWindowWins ==
    (pc = "done" /\ outcome.kind = "returned") =>
       \A name \in {"speed", "incline"} :
          Matching(name) # {} =>
             LET p == LastPlace(Matching(name)) IN
             /\ UpperStat(name) = BoundAt(p).upper
             /\ LowerStat(name) = BoundAt(p).lower

\* C9: two windows contain the elapsed time; the first lists speed and
\* incline, the second incline alone: incline is the second's, speed stays
\* the first's
C9_Witness ==
    LET list == workout_stats_detail.target_metrics IN
    /\ pc = "done"
    /\ Len(list) = 2
    /\ Contains(list[1]) /\ Contains(list[2])
    /\ Len(list[1].metrics) = 2
    /\ list[1].metrics[1].name = "speed" /\ list[1].metrics[2].name = "incline"
    /\ Len(list[2].metrics) = 1 /\ list[2].metrics[1].name = "incline"
    /\ ValueOf("Target Speed Upper") = IntV(112)
    /\ ValueOf("Target Speed Lower") = IntV(111)
    /\ ValueOf("Target Incline Upper") = IntV(212)
    /\ ValueOf("Target Incline Lower") = IntV(211)

----------------------------------------------------------------------------
(* The coordinator: async_setup_entry and the cycles of async_update_data  *)

MaxSetups == 2
MaxCycles == 3

InitialInterval == 10
ActiveInterval == 2
IdleInterval == 20
ActiveStatInterval == 2
IdleStatInterval == 300

ConfigEntryAuthFailed == [kind |-> "ConfigEntryAuthFailed", msg |-> ""]
CouldNotConnect == [kind |-> "UpdateFailed", msg |-> "Could not connect to Peloton."]
NoWorkouts == [kind |-> "UpdateFailed", msg |-> "User has no workouts."]
Data == [kind |-> "data", msg |-> ""]

\* an exception no except clause of the function names leaves it as it is
Escaped(exc) == [kind |-> "escaped", msg |-> exc]

Fault(step, exc) == [step |-> step, exc |-> exc]

\* what PylotonCycle(username, password) can do
LoginOutcomes == {"ok", "PelotonLoginException", "ConnectionError", "Timeout"}

\* what a fetch of the api can do besides returning
FetchFailures == {"ConnectionError", "Timeout"}

\* lines 51-55: the except clauses around the login
LoginResult(exc) ==
    IF exc = "PelotonLoginException" THEN ConfigEntryAuthFailed
    ELSE IF exc \in {"ConnectionError", "Timeout"} THEN CouldNotConnect
    ELSE Escaped(exc)

\* lines 62-65: the except clauses around GetRecentWorkouts and workouts[0]
RecentResult(exc) ==
    IF exc = "IndexError" THEN NoWorkouts
    ELSE IF exc \in {"ConnectionError", "Timeout"} THEN CouldNotConnect
    ELSE Escaped(exc)

\* line 69
InProgress(summary) == Get(summary.status) = StrV("IN_PROGRESS")

\* timedelta(seconds=2) if in_progress else timedelta(seconds=20), always 20
UpdateIntervalAlwaysIdle(in_progress) == IdleInterval

\* line 73
UpdateIntervalFor(in_progress) ==
    IF in_progress THEN ActiveInterval ELSE IdleInterval

\* line 71
StatIntervalFor(in_progress) ==
    IF in_progress THEN ActiveStatInterval ELSE IdleStatInterval

\* the workouts GetRecentWorkouts returns first
CoordSummaries ==
    { [EmptySummary EXCEPT !.status = st, !.start_time = IntV(1)] :
        st \in {Absent, StrV("IN_PROGRESS"), StrV("COMPLETE")} }

\* the details GetWorkoutMetricsById returns
CoordDetails ==
    { EmptyDetail, FullDetail, TargetsOnly(<< Window(FALSE, 0, 0, TRUE, <<>>) >>) }

\* the cycle ends: the first refresh of a setup ends the setup too
EndCycle(ok) ==
    /\ cpc' = IF ok \/ loaded THEN "idle" ELSE "not_setup"
    /\ loaded' = (loaded \/ ok)

\* lines 36-105 up to the first refresh: the login, then the coordinator
AsyncSetupEntry ==
    /\ cpc = "not_setup"
    /\ setups < MaxSetups
    /\ setups' = setups + 1
    /\ \E login \in LoginOutcomes :
          IF login = "ok"
            THEN /\ update_interval' = InitialInterval
                 /\ fetched' = FALSE
                 /\ cpc' = "recent"
                 /\ fault' = NoFault
                 /\ UNCHANGED result
            ELSE /\ result' = LoginResult(login)
                 /\ fault' = Fault("login", login)
                 /\ UNCHANGED <<update_interval, fetched, cpc>>
    /\ loaded' = FALSE
    /\ UNCHANGED <<stat_interval, cycles>>
    /\ UNCHANGED compileVars

\* the coordinator calls update_method again after update_interval
ScheduledRefresh ==
    /\ cpc = "idle"
    /\ cycles < MaxCycles
    /\ cycles' = cycles + 1
    /\ cpc' = "recent"
    /\ fault' = NoFault
    /\ UNCHANGED <<update_interval, stat_interval, result, fetched, setups, loaded>>
    /\ UNCHANGED compileVars

\* lines 59-73: GetRecentWorkouts, workouts[0], the two intervals
UpdateRecent ==
    /\ cpc = "recent"
    /\ \E r \in {"workouts", "IndexError"} \cup FetchFailures :
          IF r = "workouts"
            THEN \E s \in CoordSummaries :
                 /\ workout_stats_summary' = s
                 /\ stat_interval' = StatIntervalFor(InProgress(s))
                 /\ update_interval' = UpdateIntervalFor(InProgress(s))
                 /\ fetched' = TRUE
                 /\ cpc' = "detail"
                 /\ fault' = NoFault
                 /\ UNCHANGED <<result, loaded>>
            ELSE /\ result' = RecentResult(r)
                 /\ fault' = Fault("recent", r)
                 /\ EndCycle(FALSE)
                 /\ UNCHANGED <<workout_stats_summary, stat_interval,
                                update_interval, fetched>>
    /\ UNCHANGED <<cycles, setups>>
    /\ UNCHANGED <<workout_stats_detail, now, pc, summaries, metrics, outcome, stats>>

\* lines 77-79: GetWorkoutMetricsById, outside any try
UpdateDetail ==
    /\ cpc = "detail"
    /\ \E r \in {"detail"} \cup FetchFailures :
          IF r = "detail"
            THEN \E d \in CoordDetails :
                 /\ workout_stats_detail' = d
                 /\ cpc' = "profile"
                 /\ fault' = NoFault
                 /\ UNCHANGED <<result, loaded>>
            ELSE /\ result' = Escaped(r)
                 /\ fault' = Fault("detail", r)
                 /\ EndCycle(FALSE)
                 /\ UNCHANGED workout_stats_detail
    /\ UNCHANGED <<update_interval, stat_interval, fetched, cycles, setups>>
    /\ UNCHANGED <<workout_stats_summary, now, pc, summaries, metrics, outcome, stats>>

\* line 82: GetMe, outside any try
UpdateProfile ==
    /\ cpc = "profile"
    /\ \E r \in {"profile"} \cup FetchFailures :
          IF r = "profile"
            THEN /\ cpc' = "compile"
                 /\ fault' = NoFault
                 /\ UNCHANGED <<result, loaded>>
            ELSE /\ result' = Escaped(r)
                 /\ fault' = Fault("profile", r)
                 /\ EndCycle(FALSE)
    /\ UNCHANGED <<update_interval, stat_interval, fetched, cycles, setups>>
    /\ UNCHANGED compileVars

\* lines 83-87: compile_quant_data and the returned dict
UpdateCompile ==
    /\ cpc = "compile"
    /\ now' = NowWhole
    /\ LET r == CompileQuantData(workout_stats_summary, workout_stats_detail, now')
       IN  /\ stats' = r.stats
           /\ result' = IF r.exc = "" THEN Data ELSE Escaped(r.exc)
           /\ fault' = NoFault
           /\ EndCycle(r.exc = "")
    /\ UNCHANGED <<update_interval, stat_interval, fetched, cycles, setups>>
    /\ UNCHANGED <<workout_stats_summary, workout_stats_detail, pc, summaries,
                   metrics, outcome>>

NextCoord ==
    \/ AsyncSetupEntry
    \/ ScheduledRefresh
    \/ UpdateRecent
    \/ UpdateDetail
    \/ UpdateProfile
    \/ UpdateCompile

InitCoord ==
    /\ workout_stats_summary = EmptySummary
    /\ workout_stats_detail = EmptyDetail
    /\ now = 0
    /\ pc = "idle"
    /\ summaries = EmptyMap
    /\ metrics = EmptyMap
    /\ outcome = Running
    /\ stats = <<>>
    /\ CoordIdle

SpecCoord == InitCoord /\ [][NextCoord]_vars

\* C8: a login failure, a transport failure or timeout of any fetch, and an
\* empty workout list each reach the caller as their own named failure
C8_FailuresClassified ==
    /\ fault.exc = "PelotonLoginException" => result = ConfigEntryAuthFailed
    /\ fault.exc \in {"ConnectionError", "Timeout"} => result = CouldNotConnect
    /\ fault.exc = "IndexError" => result = NoWorkouts
    /\ Cardinality({ConfigEntryAuthFailed, CouldNotConnect, NoWorkouts}) = 3

\* the same for the login and the GetRecentWorkouts step alone
C8_ClassifiedInsideTry ==
    fault.step \in {"login", "recent"} =>
       /\ fault.exc = "PelotonLoginException" => result = ConfigEntryAuthFailed
       /\ fault.exc \in {"ConnectionError", "Timeout"} => result = CouldNotConnect
       /\ fault.exc = "IndexError" => result = NoWorkouts

\* C10: a coordinator polls every 10 s until a cycle of its own gets a
\* workout; a cycle that gets one sets the interval to 2 s and the step to
\* 2 when the workout is in progress, to 20 s and 300 otherwise, and the
\* later steps of the cycle leave both; a cycle that fails at
\* GetRecentWorkouts leaves the interval as it is
C10_PollingInterval ==
    /\ []((cpc # "not_setup" /\ ~fetched) => update_interval = 10)
    /\ [][ /\ (cpc = "recent" /\ cpc' = "detail") =>
                /\ update_interval' =
                     IF workout_stats_summary'.status = StrV("IN_PROGRESS")
                       THEN 2 ELSE 20
                /\ stat_interval' =
                     IF workout_stats_summary'.status = StrV("IN_PROGRESS")
                       THEN 2 ELSE 300
           /\ (cpc = "recent" /\ cpc' # "detail") =>
                update_interval' = update_interval
           /\ cpc \in {"detail", "profile", "compile", "idle"} =>
                /\ update_interval' = update_interval
                /\ stat_interval' = stat_interval ]_vars

\* C10: the detail fetch of a cycle with a workout in progress failed, and
\* the interval and the step are those of a workout in progress
C10_Witness ==
    /\ fault = Fault("detail", "Timeout")
    /\ workout_stats_summary.status = StrV("IN_PROGRESS")
    /\ update_interval = 2
    /\ stat_interval = 2
    /\ loaded

====
